---- MODULE Spec2Model ----
(***************************************************************************)
(* runconfig.py: a launcher script.  run_executable() resolves the path of *)
(* a bundled executable against the directory of the script, tests that a  *)
(* regular file is there, runs it as a child process and waits for it.     *)
(*                                                                         *)
(* A path is a sequence of tokens: the separator "/" and component names,  *)
(* so "/opt/app" is <<"/", "opt", "/", "app">>.  The os.path functions are *)
(* the posixpath ones, computed token by token as the library does.        *)
(* A printed line is the sequence of its literal pieces and path tokens.   *)
(*                                                                         *)
(* Several executions of the script (Procs) share one file system and may  *)
(* overlap or follow one another.                                          *)
(***************************************************************************)
EXTENDS Integers, Sequences, FiniteSets, TLC

\* ------------------------------------------------------------------ bounds
NumProcs == 2

Procs == 1..NumProcs

\* ------------------------------------------------------- the environment
Sep == "/"

\* the working directory of the executions
Cwd == <<Sep, "opt">>

\* the values __file__ may have: absolute, in the root directory, and
\* relative with "." and ".." components
ScriptFiles ==
    { <<Sep, "opt", Sep, "app", Sep, "runconfig">>,
      <<Sep, "runconfig">>,
      <<"..", Sep, "opt", Sep, "app", Sep, ".", Sep, "runconfig">> }

\* what may be found at a path
Kinds == {"absent", "file", "noexec", "dir"}

\* the exit statuses of a child: success and failure
ExitStatuses == {0, 1}

\* ------------------------------------------------------------ os.path
Last(s) == s[Len(s)]

IsAbs(p) == p # <<>> /\ p[1] = Sep

\* a variant of Join: the separator is left out
Join_noSep(a, b) ==
    IF b # <<>> /\ b[1] = Sep THEN b ELSE a \o b

\* posixpath.join(a, b)
Join(a, b) ==
    IF b # <<>> /\ b[1] = Sep THEN b
    ELSE IF a = <<>> \/ Last(a) = Sep THEN a \o b
    ELSE a \o <<Sep>> \o b

\* posixpath.join(a, *ps)
RECURSIVE JoinAll(_, _)
JoinAll(a, ps) ==
    IF ps = <<>> THEN a ELSE JoinAll(Join(a, Head(ps)), Tail(ps))

\* p.rfind(sep) + 1, on tokens
LastSepIndex(p) ==
    IF \E i \in 1..Len(p) : p[i] = Sep
    THEN CHOOSE i \in 1..Len(p) :
             p[i] = Sep /\ \A j \in (i+1)..Len(p) : p[j] # Sep
    ELSE 0

\* head.rstrip(sep)
RECURSIVE RStripSep(_)
RStripSep(p) ==
    IF p # <<>> /\ Last(p) = Sep THEN RStripSep(SubSeq(p, 1, Len(p) - 1))
    ELSE p

\* posixpath.dirname(p)
Dirname(p) ==
    LET head == SubSeq(p, 1, LastSepIndex(p))
    IN  IF head # <<>> /\ \E i \in 1..Len(head) : head[i] # Sep
        THEN RStripSep(head)
        ELSE head

\* the loop of posixpath.normpath over the components
RECURSIVE NormComps(_, _, _)
NormComps(comps, new, rooted) ==
    IF comps = <<>> THEN new
    ELSE LET c == Head(comps)
             rest == Tail(comps)
         IN  IF c = "." THEN NormComps(rest, new, rooted)
             ELSE IF c # ".."
                     \/ (~rooted /\ new = <<>>)
                     \/ (new # <<>> /\ Last(new) = "..")
                  THEN NormComps(rest, Append(new, c), rooted)
             ELSE IF new # <<>>
                  THEN NormComps(rest, SubSeq(new, 1, Len(new) - 1), rooted)
             ELSE NormComps(rest, new, rooted)

\* sep.join(comps)
RECURSIVE SepJoin(_)
SepJoin(comps) ==
    IF comps = <<>> THEN <<>>
    ELSE IF Len(comps) = 1 THEN comps
    ELSE <<Head(comps), Sep>> \o SepJoin(Tail(comps))

\* posixpath.normpath(p)
Normpath(p) ==
    IF p = <<>> THEN <<".">>
    ELSE LET slashes ==
                 IF ~IsAbs(p) THEN <<>>
                 ELSE IF Len(p) >= 2 /\ p[2] = Sep /\ ~(Len(p) >= 3 /\ p[3] = Sep)
                      THEN <<Sep, Sep>>
                 ELSE <<Sep>>
             comps == NormComps(SelectSeq(p, LAMBDA t : t # Sep), <<>>, IsAbs(p))
             res == slashes \o SepJoin(comps)
         IN  IF res = <<>> THEN <<".">> ELSE res

\* posixpath.abspath(p), with the working directory cwd
Abspath(p, cwd) ==
    Normpath(IF IsAbs(p) THEN p ELSE Join(cwd, p))

\* ------------------------------------------------- run_executable, pure
\* line 6
ScriptDir(f) == Dirname(Abspath(f, Cwd))

\* line 9
RelativePath ==
    JoinAll(<<"obj-x86_64-pc-windows-msvc">>,
            << <<"dist">>, <<"bin">>, <<"lunarfox.exe">> >>)

\* line 12
ExePath(f) == Join(ScriptDir(f), RelativePath)

\* the paths the file system of the model holds an entry for
TargetPaths == { ExePath(f) : f \in ScriptFiles }

\* what the file system has at path
KindAt(files, path) ==
    IF path \in DOMAIN files THEN files[path] ELSE "absent"

\* os.path.isfile(path)
IsFile(files, path) == KindAt(files, path) \in {"file", "noexec"}

\* no exception
NoException == [type |-> "none", text |-> <<>>]

\* the exception Popen raises for path (an OSError, with its str()),
\* NoException when the child starts
PopenError(files, path) ==
    CASE KindAt(files, path) = "file" -> NoException
      [] KindAt(files, path) = "absent" ->
             [type |-> "FileNotFoundError",
              text |-> <<"[Errno 2] No such file or directory: '">>
                           \o path \o <<"'">>]
      [] OTHER ->
             [type |-> "PermissionError",
              text |-> <<"[Errno 13] Permission denied: '">>
                           \o path \o <<"'">>]

\* line 16: the printed line
MissingReport(path) ==
    <<"Error: The executable was not found at ">> \o path

\* str(CalledProcessError(retcode, cmd))
StrCalledProcessError(retcode, cmd) ==
    IF retcode < 0
    THEN <<"Command '">> \o cmd
             \o <<"' died with signal ", ToString(-retcode), ".">>
    ELSE <<"Command '">> \o cmd
             \o <<"' returned non-zero exit status ", ToString(retcode), ".">>

\* a variant of CheckRaises: raises whatever the return code
CheckRaises_always(retcode, cmd) ==
    [type |-> "CalledProcessError",
     text |-> StrCalledProcessError(retcode, cmd)]

\* subprocess.run(..., check=True): the exception raised for a return code
CheckRaises(retcode, cmd) ==
    IF retcode # 0
    THEN [type |-> "CalledProcessError",
          text |-> StrCalledProcessError(retcode, cmd)]
    ELSE NoException

\* a variant of Catches: no except clause
Catches_none(exception) == FALSE

\* a variant of Catches: except Exception
Catches_all(exception) == exception.type # "none"

\* the except clause of line 22
Catches(exception) == exception.type = "CalledProcessError"

\* line 23: the printed line, e the caught exception
FailureReport(e) ==
    <<"Error: The executable failed with error ">> \o e.text

\* a variant of ExitStatusFor: any exception raised in the run, caught or
\* not, makes the status of the script 1
ExitStatusFor_propagate(e) ==
    IF e # NoException THEN <<1>> ELSE <<0>>

\* lines 25-26: the status the script ends with when run_executable, having
\* raised e (NoException when nothing was raised), returns or lets e out
ExitStatusFor(e) ==
    IF e # NoException /\ ~Catches(e) THEN <<1>> ELSE <<0>>

\* ------------------------------------------------------------- the state
VARIABLES
    file,          \* __file__ of the script
    fs,            \* the file system: TargetPaths -> Kinds
    pc,            \* where each execution is
    script_dir,    \* the local script_dir, <<>> before line 6
    relative_path, \* the local relative_path
    exe_path,      \* the local exe_path
    out,           \* the lines each execution printed on standard output
    kids,          \* the child processes each execution spawned, in order:
                   \*   [cmd, returncode], returncode <<>> while it runs
    exc,           \* the exception that left run_executable, [type, text]
    exitStatus,    \* <<>> while the execution lives, then <<its exit status>>
    checked,       \* history: the isfile calls, [path, result]
    events,        \* history: what each execution did, in order
    startedAfter   \* history: the executions that had ended when this one began

vars == <<file, fs, pc, script_dir, relative_path, exe_path, out,
          kids, exc, exitStatus, checked, events, startedAfter>>

env == <<file, fs>>
locals == <<script_dir, relative_path, exe_path>>

TypeOK ==
    /\ file \in ScriptFiles
    /\ fs \in [TargetPaths -> Kinds]
    /\ pc \in [Procs -> {"idle", "resolved", "launch", "waiting", "exited"}]
    /\ \A p \in Procs :
          /\ exc[p].type \in {"none", "CalledProcessError",
                              "FileNotFoundError", "PermissionError"}
          /\ Len(out[p]) <= 2
          /\ Len(kids[p]) <= 2
          /\ exitStatus[p] \in {<<>>, <<0>>, <<1>>}
          /\ startedAfter[p] \subseteq Procs

Init ==
    /\ file \in ScriptFiles
    /\ \E k \in Kinds :
          fs = [q \in TargetPaths |-> IF q = ExePath(file) THEN k ELSE "absent"]
    /\ pc = [p \in Procs |-> "idle"]
    /\ script_dir = [p \in Procs |-> <<>>]
    /\ relative_path = [p \in Procs |-> <<>>]
    /\ exe_path = [p \in Procs |-> <<>>]
    /\ out = [p \in Procs |-> <<>>]
    /\ kids = [p \in Procs |-> <<>>]
    /\ exc = [p \in Procs |-> NoException]
    /\ exitStatus = [p \in Procs |-> <<>>]
    /\ checked = [p \in Procs |-> <<>>]
    /\ events = [p \in Procs |-> <<>>]
    /\ startedAfter = [p \in Procs |-> {}]

\* ------------------------------------------------------------ the steps
\* lines 25-26 and 6-12: the script starts, calls run_executable, which
\* computes the path
Resolve(p) ==
    /\ pc[p] = "idle"
    /\ script_dir' = [script_dir EXCEPT ![p] = ScriptDir(file)]
    /\ relative_path' = [relative_path EXCEPT ![p] = RelativePath]
    /\ exe_path' = [exe_path EXCEPT ![p] = Join(ScriptDir(file), RelativePath)]
    /\ startedAfter' = [startedAfter EXCEPT
                            ![p] = {q \in Procs : pc[q] = "exited"}]
    /\ pc' = [pc EXCEPT ![p] = "resolved"]
    /\ UNCHANGED <<env, out, kids, exc, exitStatus, checked, events>>

\* a variant of CheckExists: the return of line 17 is left out
CheckExists_noReturn(p) ==
    /\ pc[p] = "resolved"
    /\ LET found == IsFile(fs, exe_path[p])
       IN  /\ checked' = [checked EXCEPT
                             ![p] = Append(@, [path |-> exe_path[p],
                                               result |-> found])]
           /\ IF found
              THEN /\ events' = [events EXCEPT ![p] = Append(@, "check")]
                   /\ UNCHANGED out
              ELSE /\ out' = [out EXCEPT
                                ![p] = Append(@, MissingReport(exe_path[p]))]
                   /\ events' = [events EXCEPT ![p] = @ \o <<"check", "report">>]
    /\ pc' = [pc EXCEPT ![p] = "launch"]
    /\ UNCHANGED <<env, locals, kids, exc, exitStatus, startedAfter>>

\* lines 15-17: the existence check; without a regular file the run prints
\* the report and returns, and the script ends
CheckExists(p) ==
    /\ pc[p] = "resolved"
    /\ LET found == IsFile(fs, exe_path[p])
       IN  /\ checked' = [checked EXCEPT
                             ![p] = Append(@, [path |-> exe_path[p],
                                               result |-> found])]
           /\ IF found
              THEN /\ pc' = [pc EXCEPT ![p] = "launch"]
                   /\ events' = [events EXCEPT ![p] = Append(@, "check")]
                   /\ UNCHANGED <<out, exitStatus>>
              ELSE /\ out' = [out EXCEPT
                                ![p] = Append(@, MissingReport(exe_path[p]))]
                   /\ events' = [events EXCEPT
                                   ![p] = @ \o <<"check", "report", "return">>]
                   /\ exitStatus' = [exitStatus EXCEPT
                                        ![p] = ExitStatusFor(NoException)]
                   /\ pc' = [pc EXCEPT ![p] = "exited"]
    /\ UNCHANGED <<env, locals, kids, exc, startedAfter>>

\* lines 20-26 once e is raised inside the try: the handler of line 22
\* prints and the run returns, or e leaves run_executable and ends the script
Raise(p, e) ==
    /\ IF Catches(e)
       THEN /\ out' = [out EXCEPT ![p] = Append(@, FailureReport(e))]
            /\ events' = [events EXCEPT
                            ![p] = @ \o <<"raise", "report", "return">>]
            /\ UNCHANGED exc
       ELSE /\ exc' = [exc EXCEPT ![p] = e]
            /\ events' = [events EXCEPT ![p] = Append(@, "raise")]
            /\ UNCHANGED out
    /\ exitStatus' = [exitStatus EXCEPT ![p] = ExitStatusFor(e)]
    /\ pc' = [pc EXCEPT ![p] = "exited"]

\* a variant of Launch: a run that finds an earlier run did start the
\* executable does not start it again
Launch_reuse(p) ==
    /\ pc[p] = "launch"
    /\ LET e == PopenError(fs, exe_path[p])
       IN  IF \E q \in Procs \ {p} : pc[q] = "exited" /\ kids[q] # <<>>
           THEN /\ events' = [events EXCEPT ![p] = Append(@, "return")]
                /\ exitStatus' = [exitStatus EXCEPT
                                     ![p] = ExitStatusFor(NoException)]
                /\ pc' = [pc EXCEPT ![p] = "exited"]
                /\ UNCHANGED <<kids, exc, out>>
           ELSE IF e = NoException
           THEN /\ kids' = [kids EXCEPT
                               ![p] = Append(@, [cmd |-> exe_path[p],
                                                 returncode |-> <<>>])]
                /\ events' = [events EXCEPT ![p] = Append(@, "spawn")]
                /\ pc' = [pc EXCEPT ![p] = "waiting"]
                /\ UNCHANGED <<exc, out, exitStatus>>
           ELSE /\ Raise(p, e)
                /\ UNCHANGED kids
    /\ UNCHANGED <<env, locals, checked, startedAfter>>

\* line 21, first half: subprocess.run starts the child, or Popen raises
Launch(p) ==
    /\ pc[p] = "launch"
    /\ LET e == PopenError(fs, exe_path[p])
       IN  IF e = NoException
           THEN /\ kids' = [kids EXCEPT
                               ![p] = Append(@, [cmd |-> exe_path[p],
                                                 returncode |-> <<>>])]
                /\ events' = [events EXCEPT ![p] = Append(@, "spawn")]
                /\ pc' = [pc EXCEPT ![p] = "waiting"]
                /\ UNCHANGED <<exc, out, exitStatus>>
           ELSE /\ Raise(p, e)
                /\ UNCHANGED kids
    /\ UNCHANGED <<env, locals, checked, startedAfter>>

\* the child of p that runs ends with status s (the environment's step)
ChildExit(p, s) ==
    /\ kids[p] # <<>>
    /\ Last(kids[p]).returncode = <<>>
    /\ kids' = [kids EXCEPT ![p][Len(kids[p])].returncode = <<s>>]
    /\ events' = [events EXCEPT ![p] = Append(@, "childexit")]
    /\ UNCHANGED <<env, locals, pc, out, exc, exitStatus, checked, startedAfter>>

\* a variant of WaitOver: the wait is for every child of every run
WaitOver_anyChild(p) ==
    /\ kids[p] # <<>>
    /\ \A q \in Procs :
          \A i \in 1..Len(kids[q]) : kids[q][i].returncode # <<>>

\* the wait of subprocess.run is over when the child it started has ended
WaitOver(p) ==
    /\ kids[p] # <<>>
    /\ Last(kids[p]).returncode # <<>>

\* a variant of WaitReturn: a failed child is started once more
WaitReturn_retry(p) ==
    /\ pc[p] = "waiting"
    /\ WaitOver(p)
    /\ LET e == CheckRaises(Last(kids[p]).returncode[1], Last(kids[p]).cmd)
       IN  IF e = NoException
           THEN /\ events' = [events EXCEPT ![p] = Append(@, "return")]
                /\ exitStatus' = [exitStatus EXCEPT ![p] = ExitStatusFor(e)]
                /\ pc' = [pc EXCEPT ![p] = "exited"]
                /\ UNCHANGED <<exc, out>>
           ELSE IF Len(kids[p]) < 2
           THEN /\ pc' = [pc EXCEPT ![p] = "launch"]
                /\ UNCHANGED <<events, exc, out, exitStatus>>
           ELSE Raise(p, e)
    /\ UNCHANGED <<env, locals, kids, checked, startedAfter>>

\* a variant of WaitReturn: the child is started and not waited for
WaitReturn_noWait(p) ==
    /\ pc[p] = "waiting"
    /\ kids[p] # <<>>
    /\ events' = [events EXCEPT ![p] = Append(@, "return")]
    /\ exitStatus' = [exitStatus EXCEPT ![p] = ExitStatusFor(NoException)]
    /\ pc' = [pc EXCEPT ![p] = "exited"]
    /\ UNCHANGED <<env, locals, out, kids, exc, checked, startedAfter>>

\* lines 21-26, second half: the wait returns; check=True raises on a
\* non-zero return code, line 22 catches CalledProcessError, line 23 prints;
\* the run returns and the script ends
WaitReturn(p) ==
    /\ pc[p] = "waiting"
    /\ WaitOver(p)
    /\ LET e == CheckRaises(Last(kids[p]).returncode[1], Last(kids[p]).cmd)
       IN  IF e = NoException
           THEN /\ events' = [events EXCEPT ![p] = Append(@, "return")]
                /\ exitStatus' = [exitStatus EXCEPT ![p] = ExitStatusFor(e)]
                /\ pc' = [pc EXCEPT ![p] = "exited"]
                /\ UNCHANGED <<exc, out>>
           ELSE Raise(p, e)
    /\ UNCHANGED <<env, locals, kids, checked, startedAfter>>

\* the environment puts something else at the path the executions consult
\* (no execution reads another entry), at any time
FsChange(q, k) ==
    /\ q = ExePath(file)
    /\ fs[q] # k
    /\ fs' = [fs EXCEPT ![q] = k]
    /\ UNCHANGED <<file, locals, pc, out, kids, exc, exitStatus, checked,
                   events, startedAfter>>

\* the steps of an execution that has started
Running(p) ==
    \/ CheckExists(p)
    \/ Launch(p)
    \/ WaitReturn(p)

Next ==
    \/ \E p \in Procs : Resolve(p)
    \/ \E p \in Procs : Running(p)
    \/ \E p \in Procs, s \in ExitStatuses : ChildExit(p, s)
    \/ \E q \in TargetPaths, k \in Kinds : FsChange(q, k)

Spec == Init /\ [][Next]_vars

\* the interpreter keeps running an execution that has started; nothing makes
\* the script start, a child end or the file system change
FairSpec == Spec /\ \A p \in Procs : WF_vars(Running(p))

\* ------------------------------------------------------------ properties
\* the script location L, and the suffix R written out
ScriptLocation == Abspath(file, Cwd)
RSuffix ==
    <<"obj-x86_64-pc-windows-msvc", Sep, "dist", Sep, "bin", Sep, "lunarfox.exe">>

Ended(p) == pc[p] = "exited"
Returned(p) == Ended(p) /\ exc[p] = NoException
Faulted(p) == Ended(p) /\ exc[p] # NoException

CheckFound(p) == checked[p] # <<>> /\ checked[p][1].result
CheckMissed(p) == checked[p] # <<>> /\ ~checked[p][1].result

Contains(line, part) ==
    \E i \in 1..(Len(line) - Len(part) + 1) :
        SubSeq(line, i, i + Len(part) - 1) = part

IsPrefix(s, t) == Len(s) <= Len(t) /\ SubSeq(t, 1, Len(s)) = s

IsMissingReport(line) == line[1] = "Error: The executable was not found at "
IsFailureReport(line) == line[1] = "Error: The executable failed with error "

ChildStatus(p) == Last(kids[p]).returncode

\* C1: in a run whose existence check finds no regular file, no child is
\* ever spawned and the run prints exactly one report, which holds the path as
\* computed; a child is spawned in a run only after the check of that run
\* returned true.
C1_MissingNeverSpawns ==
    \A p \in Procs :
        /\ kids[p] # <<>> => CheckFound(p) /\ IsPrefix(<<"check", "spawn">>, events[p])
        /\ CheckMissed(p) =>
              /\ kids[p] = <<>>
              /\ Returned(p)
              /\ checked[p][1].path = exe_path[p]
              /\ Ended(p) =>
                    /\ Len(out[p]) = 1
                    /\ IsMissingReport(out[p][1])
                    /\ Contains(out[p][1], exe_path[p])

C1_Witness ==
    \E p \in Procs :
        /\ pc[p] = "exited"
        /\ CheckMissed(p)
        /\ fs[exe_path[p]] = "file"
        /\ Len(out[p]) = 1

\* C2: in a run where the file is found and launched and the child ends with
\* a non-zero status, the run prints the failure report and returns: the
\* exception does not leave run_executable.
C2_FailureReported ==
    \A p \in Procs :
        (kids[p] # <<>> /\ ChildStatus(p) \notin {<<>>, <<0>>}) =>
            /\ pc[p] \in {"waiting", "exited"}
            /\ ~Faulted(p)
            /\ Ended(p) =>
                  /\ Len(out[p]) = 1
                  /\ IsFailureReport(out[p][1])
                  /\ exc[p] = NoException

C2_Witness ==
    \E p \in Procs :
        /\ pc[p] = "exited"
        /\ kids[p] # <<>>
        /\ ChildStatus(p) = <<1>>
        /\ Len(out[p]) = 1

\* C3: in a run where the file is found and launched and the child ends with
\* status 0, the launcher prints nothing and ends without a failure.
C3_SuccessSilent ==
    \A p \in Procs :
        (kids[p] # <<>> /\ ChildStatus(p) = <<0>>) =>
            /\ out[p] = <<>>
            /\ exc[p] = NoException
            /\ pc[p] \in {"waiting", "exited"}
            /\ pc[p] = "exited" => exitStatus[p] = <<0>>

C3_Witness ==
    \E p \in Procs :
        /\ pc[p] = "exited"
        /\ kids[p] # <<>>
        /\ ChildStatus(p) = <<0>>

\* C4: the target path is join(directory_of(L), R) for the script location L
\* and the suffix R: the same in every run with one L whatever the file
\* system holds, and the one path that is checked, launched and printed; L =
\* /opt/app/runconfig gives /opt/app/obj-x86_64-pc-windows-msvc/dist/bin/
\* lunarfox.exe.
C4_TargetPath ==
    \A p \in Procs :
        pc[p] # "idle" =>
            /\ exe_path[p] = Join(Dirname(ScriptLocation), RSuffix)
            /\ ScriptLocation = <<Sep, "opt", Sep, "app", Sep, "runconfig">> =>
                   exe_path[p] = <<Sep, "opt", Sep, "app", Sep>> \o RSuffix
            /\ ScriptLocation = <<Sep, "runconfig">> =>
                   exe_path[p] = <<Sep>> \o RSuffix
            /\ \A q \in Procs : pc[q] # "idle" => exe_path[q] = exe_path[p]
            /\ \A i \in 1..Len(checked[p]) : checked[p][i].path = exe_path[p]
            /\ \A i \in 1..Len(kids[p]) : kids[p][i].cmd = exe_path[p]
            /\ \A i \in 1..Len(out[p]) :
                   IsMissingReport(out[p][i]) =>
                       out[p][i] = <<out[p][i][1]>> \o exe_path[p]

C4_Witness ==
    /\ file # <<Sep, "opt", Sep, "app", Sep, "runconfig">>
    /\ ScriptLocation = <<Sep, "opt", Sep, "app", Sep, "runconfig">>
    /\ \E p, q \in Procs :
          /\ p # q
          /\ pc[p] = "exited" /\ CheckMissed(p) /\ Len(out[p]) = 1
          /\ pc[q] = "exited" /\ kids[q] # <<>>

SpawnCount(p) == Len(SelectSeq(events[p], LAMBDA e : e = "spawn"))

LaunchFailed(p) == exc[p].type \in {"FileNotFoundError", "PermissionError"}

\* C5, as stated: a run that has ended spawned exactly one child when its
\* existence check succeeded and none when it failed.
C5_OnePerFoundFile ==
    \A p \in Procs :
        Ended(p) => Len(kids[p]) = (IF CheckFound(p) THEN 1 ELSE 0)

\* C5, amended: a run spawns exactly one child when its existence check
\* succeeded and the launch did not raise, and none when the check failed or
\* the launch raised; never two or more, and a failed child is not started
\* again.
C5_AtMostOneChild ==
    \A p \in Procs :
        /\ Len(kids[p]) <= 1
        /\ SpawnCount(p) = Len(kids[p])
        /\ Ended(p) =>
              Len(kids[p]) = (IF CheckFound(p) /\ ~LaunchFailed(p) THEN 1 ELSE 0)
        /\ (kids[p] # <<>> /\ ChildStatus(p) \notin {<<>>, <<0>>}) =>
              pc[p] \notin {"resolved", "launch"}

C5_Witness ==
    \E p, q \in Procs :
        /\ pc[p] = "exited" /\ kids[p] # <<>> /\ ChildStatus(p) = <<1>>
        /\ pc[q] = "exited" /\ CheckFound(q) /\ LaunchFailed(q)

\* C6: the script ends with status 0 when the executable was missing, when
\* the child failed and when the child succeeded, and with a non-zero status
\* only when an exception other than the handled one left run_executable; the
\* status of the child is never the status of the script.
C6_ExitStatus ==
    \A p \in Procs :
        /\ pc[p] # "exited" <=> exitStatus[p] = <<>>
        /\ pc[p] = "exited" =>
              /\ (CheckMissed(p) \/ kids[p] # <<>>) => exitStatus[p] = <<0>>
              /\ exitStatus[p] # <<0>> <=>
                     (exc[p] # NoException /\ ~Catches(exc[p]))
              /\ exitStatus[p] # <<0>> => CheckFound(p) /\ LaunchFailed(p)

C6_Witness ==
    \E p, q \in Procs :
        /\ pc[p] = "exited" /\ kids[p] # <<>> /\ ChildStatus(p) = <<1>>
        /\ exitStatus[p] = <<0>>
        /\ pc[q] = "exited" /\ exitStatus[q] = <<1>>

\* a run that found the file, started one child, saw it end with 0 and ended
CleanRun(p) ==
    /\ pc[p] = "exited"
    /\ events[p] = <<"check", "spawn", "childexit", "return">>
    /\ kids[p] = << [cmd |-> exe_path[p], returncode |-> <<0>>] >>
    /\ out[p] = <<>>
    /\ exitStatus[p] = <<0>>

\* C7: a run that starts after a run with a clean end, and finds the file
\* present, makes its own existence check and starts its own child, and when
\* that child ends with 0 it ends clean as well; it leaves what the first run
\* did as it was; an execution that has not started holds nothing.
C7_SecondRunIndependent ==
    \A p \in Procs :
        /\ pc[p] = "idle" =>
              /\ exe_path[p] = <<>> /\ script_dir[p] = <<>>
              /\ kids[p] = <<>> /\ out[p] = <<>> /\ checked[p] = <<>>
        /\ \A q \in startedAfter[p] :
              (kids[q] # <<>> /\ ChildStatus(q) = <<0>>) =>
                  /\ CleanRun(q)
                  /\ (CheckFound(p) /\ ~LaunchFailed(p) /\ pc[p] # "launch") =>
                        /\ checked[p] = << [path |-> exe_path[p], result |-> TRUE] >>
                        /\ Len(kids[p]) = 1
                        /\ kids[p][1].cmd = exe_path[p]
                        /\ IsPrefix(<<"check", "spawn">>, events[p])
                        /\ (pc[p] = "exited" /\ ChildStatus(p) = <<0>>) => CleanRun(p)

C7_Witness ==
    \E p \in Procs :
        \E q \in startedAfter[p] :
            /\ CleanRun(q)
            /\ CleanRun(p)

\* what a run may do, in order
RunOrders ==
    { <<"check", "report", "return">>,
      <<"check", "raise">>,
      <<"check", "spawn", "childexit", "return">>,
      <<"check", "spawn", "childexit", "raise", "report", "return">> }

\* C8, the order: the events of a run are the existence check, the spawn,
\* the end of the child, the failure report only after a non-zero status, the
\* return; while the child runs the launcher waits, has printed nothing and
\* has not returned.
C8_Order ==
    \A p \in Procs :
        /\ \E o \in RunOrders : IsPrefix(events[p], o)
        /\ (kids[p] # <<>> /\ ChildStatus(p) = <<>>) =>
              pc[p] = "waiting" /\ out[p] = <<>>
        /\ out[p] # <<>> /\ kids[p] # <<>> =>
              ChildStatus(p) \notin {<<>>, <<0>>}

\* C8: after the spawn run_executable neither returns nor reports before
\* the child has ended (C8_Order), a child that never ends keeps the launcher
\* waiting, and once the child has ended the launcher ends.
C8_WaitsForChild ==
    /\ []C8_Order
    /\ [][\A p \in Procs :
              (pc[p] = "waiting" /\ ChildStatus(p) = <<>>) =>
                  (pc'[p] = "waiting" /\ out'[p] = out[p])]_vars
    /\ \A p \in Procs :
          (pc[p] = "waiting" /\ ChildStatus(p) # <<>>) ~> (pc[p] = "exited")

C8_Witness ==
    \E p \in Procs :
        /\ pc[p] = "exited"
        /\ events[p] = <<"check", "spawn", "childexit", "raise", "report", "return">>

\* C9: when the existence check found the file and the launch raises, the
\* exception leaves run_executable: no report is printed, no child runs, and
\* the script ends on the unhandled exception.
C9_LaunchFaultUnhandled ==
    \A p \in Procs :
        /\ LaunchFailed(p) =>
              /\ CheckFound(p)
              /\ Faulted(p)
              /\ out[p] = <<>>
              /\ kids[p] = <<>>
              /\ events[p] = <<"check", "raise">>
              /\ pc[p] = "exited" => exitStatus[p] = <<1>>
        /\ (CheckFound(p) /\ kids[p] = <<>> /\ pc[p] # "launch") =>
              LaunchFailed(p)

C9_Witness ==
    \E p, q \in Procs :
        /\ pc[p] = "exited" /\ exc[p].type = "FileNotFoundError"
        /\ pc[q] = "exited" /\ exc[q].type = "PermissionError"

\* C10: runs that overlap each start and wait for their own child only: a
\* run whose child has ended can go on whatever the child of another run does,
\* a run whose child has not ended cannot, and what a run reports is the
\* status of its own child.
C10_OwnChildOnly ==
    \A p \in Procs :
        /\ pc[p] = "waiting" =>
              (ENABLED WaitReturn(p) <=> ChildStatus(p) # <<>>)
        /\ (Ended(p) /\ kids[p] # <<>>) =>
              /\ out[p] = IF ChildStatus(p) = <<0>> THEN <<>>
                          ELSE << FailureReport(CheckRaises(ChildStatus(p)[1],
                                                            exe_path[p])) >>
        /\ \A q \in Procs \ {p} :
              pc[p] = "launch" /\ kids[q] # <<>> => ENABLED Launch(p)

C10_Witness ==
    \E p, q \in Procs :
        /\ p # q
        /\ pc[p] = "exited" /\ kids[p] # <<>> /\ ChildStatus(p) = <<1>>
        /\ pc[q] = "waiting" /\ ChildStatus(q) = <<>>
        /\ "spawn" \in {events[q][i] : i \in 1..Len(events[q])}
        /\ startedAfter[p] = {} /\ startedAfter[q] = {}

====
